---- MODULE Spec2Model ----
(***************************************************************************)
(* Model of plugins/inventory/portal.py: the CHPC portal inventory plugin. *)
(*                                                                         *)
(* Python values are encoded uniformly as sequences of one-character       *)
(* strings, so that any two of them can be compared:                       *)
(*   a str      is the sequence of its characters, "n1" = <<"n", "1">>;    *)
(*   None, True and False are one-element sequences whose element is no    *)
(*   character of the alphabet.                                            *)
(* A JSON object is a record; a key the object lacks is a field the        *)
(* record lacks.                                                           *)
(***************************************************************************)
EXTENDS Naturals, Sequences, FiniteSets

VARIABLES
    HAS_JSONSCHEMA,  \* module flag, portal.py:56-62
    HAS_REQUESTS,    \* module flag, portal.py:64-70
    cmdb_api_url,    \* the option read at portal.py:157
    pc,              \* position of the plugin's run
    response,        \* what requests.get returned or raised
    raw_data,        \* parse's local raw_data
    sorted_data,     \* parse's local sorted_data
    host_groups,     \* groups of list(set(host_groups)) not yet iterated
    n,               \* index in sorted_data of the next host of the host loop
    calls,           \* the calls the inventory object has received, in order
    error,           \* the exception that ended the run
    name,            \* argument of a stand-alone _sanitize_group_name call
    once,            \* its result
    twice,           \* the result of sanitizing the result again
    san_pc           \* position of the stand-alone sanitizer run

vars == <<HAS_JSONSCHEMA, HAS_REQUESTS, cmdb_api_url, pc, response, raw_data, sorted_data,
          host_groups, n, calls, error, name, once, twice, san_pc>>

parse_vars == <<HAS_JSONSCHEMA, HAS_REQUESTS, cmdb_api_url, pc, response, raw_data,
                sorted_data, host_groups, n, calls, error>>

san_vars == <<name, once, twice, san_pc>>

----------------------------------------------------------------------------
(* Bounds *)

MaxHosts == 2

MaxLen == 3

----------------------------------------------------------------------------
(* Characters and strings *)

Upper == {"A", "C"}

Lower == {"a", "c"}

Digit == {"1"}

Alphabet == Upper \cup Lower \cup Digit \cup {"_", "-", "!", " "}

\* ord() of each character (for str comparison in sorted()).
Ord ==
    [ch \in Alphabet |->
        CASE ch = " " -> 32 [] ch = "!" -> 33 [] ch = "-" -> 45
          [] ch = "1" -> 49 [] ch = "A" -> 65 [] ch = "C" -> 67
          [] ch = "_" -> 95 [] ch = "a" -> 97 [] ch = "c" -> 99]

None == <<"None">>

True == <<"True">>

False == <<"False">>

Strings(len) == UNION {[1..k -> Alphabet] : k \in 0..len}

\* The character class [^A-Za-z0-9\_\-] of the regex.
RegexMatches(ch) == ch \notin (Upper \cup Lower \cup Digit \cup {"_", "-"})

\* regex.sub("_", s): every matching character is replaced by "_".
RegexSub(s) == [i \in 1..Len(s) |-> IF RegexMatches(s[i]) THEN "_" ELSE s[i]]

LowerChar(ch) ==
    CASE ch = "A" -> "a"
      [] ch = "C" -> "c"
      [] OTHER -> ch

\* str.lower()
StrLower(s) == [i \in 1..Len(s) |-> LowerChar(s[i])]

\* str.replace('-', '_')
ReplaceDash(s) == [i \in 1..Len(s) |-> IF s[i] = "-" THEN "_" ELSE s[i]]

\* Slip: '-' is replaced first and rejected characters then become '-'.
sanitize_group_name_dash(s) ==
    [i \in 1..Len(s) |->
        IF RegexMatches(s[i]) THEN "-" ELSE ReplaceDash(StrLower(s))[i]]

\* Slip: the .lower() call is left out.
sanitize_group_name_no_lower(s) == ReplaceDash(RegexSub(s))

sanitize_group_name(s) == ReplaceDash(StrLower(RegexSub(s)))

\* Python's str "<": lexicographic by code point, a proper prefix is smaller.
RECURSIVE StrLess(_, _)
StrLess(a, b) ==
    IF b = <<>> THEN FALSE
    ELSE IF a = <<>> THEN TRUE
    ELSE IF a[1] # b[1] THEN Ord[a[1]] < Ord[b[1]]
    ELSE StrLess(Tail(a), Tail(b))

\* sorted(hosts, key=primary_address): a stable insertion sort.
RECURSIVE Insert(_, _)
Insert(host, sorted) ==
    IF sorted = <<>> THEN <<host>>
    ELSE LET last == sorted[Len(sorted)]
         IN  IF StrLess(host.primary_address, last.primary_address)
             THEN Append(Insert(host, SubSeq(sorted, 1, Len(sorted) - 1)), last)
             ELSE Append(sorted, host)

\* Slip: the hosts are used in payload order.
SortedNot(hosts) == hosts

RECURSIVE Sorted(_)
Sorted(hosts) ==
    IF hosts = <<>> THEN <<>>
    ELSE Insert(hosts[Len(hosts)], Sorted(SubSeq(hosts, 1, Len(hosts) - 1)))

----------------------------------------------------------------------------
(* Inputs: what the CMDB may answer *)

Urls == {"https://cmdb.example/hosts/", "https://cmdb.example/all/"}

Addresses == {<<"C">>, <<"a">>, <<"a", "1">>}

G1 == <<"C", "-", "1">>

G2 == <<"c", "_", "1">>

G3 == <<"a", "!">>

GroupLists ==
    {<<>>, <<None>>, <<G1>>, <<G2, G1>>, <<G3, G1>>, <<G3, None>>}

\* Host objects; the second set lacks the key primary_address.
HostRecords ==
    [primary_address : Addresses, group_list : GroupLists, enabled : {True, False}]
    \cup [group_list : {<<None>>, <<G1>>}, enabled : {True}]

Payloads == [hosts : UNION {[1..k -> HostRecords] : k \in 0..MaxHosts}]

StatusCodes == {200, 404, 500}

\* What requests.get and response.json() can do.
Responses ==
    [kind : {"json"}, status_code : {200}, data : Payloads]
    \cup [kind : {"not_json"}, status_code : {200}]
    \cup [kind : {"json"}, status_code : StatusCodes \ {200}, data : {[hosts |-> <<>>]}]
    \cup [kind : {"transport"}, cause : {"ConnectionError"}]

\* A local that is not bound yet.
Unbound == [unbound |-> TRUE]

----------------------------------------------------------------------------
(* Exceptions *)

NoError == [type |-> "none", message |-> <<>>]

Exception(type, message) == [type |-> type, message |-> message]

\* to_native(e)
to_native(e) == e.message

----------------------------------------------------------------------------
(* The inventory object: it records the calls it receives *)

all == <<"a", "l", "l">>

add_group(group) == <<"add_group", group>>

add_host(host, group) == <<"add_host", host, group>>

set_variable(host, key, value) == <<"set_variable", host, key, value>>

----------------------------------------------------------------------------
(* _check_requirements and _load_inventory_data *)

Return(value) == [error |-> NoError, value |-> value]

Raise(e) == [error |-> e, value |-> None]

check_requirements ==
    IF ~HAS_JSONSCHEMA
    THEN Raise(Exception("AnsibleParserError",
                         <<"Please install \"jsonschema\" Python module">>))
    ELSE IF ~HAS_REQUESTS
    THEN Raise(Exception("AnsibleParserError",
                         <<"Please install \"requests\" Python module">>))
    ELSE Return(None)

\* Slip: the message of the non-200 error leaves the URL out.
FetchBodyNoUrl(url, resp) ==
    IF resp.kind = "transport"
    THEN Raise(Exception(resp.cause, <<resp.cause>>))
    ELSE IF resp.status_code = 200
    THEN IF resp.kind = "json"
         THEN Return(resp.data)
         ELSE Raise(Exception("JSONDecodeError", <<"Expecting value">>))
    ELSE Raise(Exception("AnsibleError",
                 <<"Failed to fetch JSON inventory data from CMDB.">>))

\* The body of the try block: requests.get, the status test, resp.json().
FetchBody(url, resp) ==
    IF resp.kind = "transport"
    THEN Raise(Exception(resp.cause, <<resp.cause>>))
    ELSE IF resp.status_code = 200
    THEN IF resp.kind = "json"
         THEN Return(resp.data)
         ELSE Raise(Exception("JSONDecodeError", <<"Expecting value">>))
    ELSE Raise(Exception("AnsibleError",
                 <<"Failed to fetch JSON inventory data from CMDB: ", url, ".">>))

\* "except Exception as e" catches every exception of the body, the
\* AnsibleError raised for a non-200 status included, and wraps its text.
load_inventory_data(url, resp) ==
    LET body == FetchBody(url, resp)
    IN  IF body.error = NoError
        THEN body
        ELSE Raise(Exception("AnsibleError",
                 <<"An error occurred, the original exception is: ">>
                 \o to_native(body.error)))

----------------------------------------------------------------------------
(* The schema, plugin_utils/portal-cmdb-schema.json, and jsonschema.validate *)

\* Each host object requires primary_address and enabled; the items of
\* group_list are strings or null.
SchemaErrors(data) ==
    {i \in 1..Len(data.hosts) : "primary_address" \notin DOMAIN data.hosts[i]}

validate(data) ==
    IF SchemaErrors(data) = {}
    THEN Return(None)
    ELSE Raise(Exception("ValidationError",
                         <<"'primary_address' is a required property">>))

----------------------------------------------------------------------------
(* The two loops of parse *)

\* Slip: the test is for an empty list.
IsPlaceholderEmpty(group_list) == group_list = <<>>

IsPlaceholder(group_list) == group_list = <<None>>

\* Index of the first None of a list, 0 when it has none.
FirstNone(group_list) ==
    IF \E i \in 1..Len(group_list) : group_list[i] = None
    THEN CHOOSE i \in 1..Len(group_list) :
            /\ group_list[i] = None
            /\ \A j \in 1..(i - 1) : group_list[j] # None
    ELSE 0

\* re's sub() raises TypeError on None: does the loop over this list raise?
Raises(group_list) == ~IsPlaceholder(group_list) /\ FirstNone(group_list) # 0

\* Slip: the collection loop skips the None values instead of sanitizing them.
CollectedGroupsSkipNone(data) ==
    Return(UNION {{sanitize_group_name(data[i].group_list[j]) :
                      j \in {k \in 1..Len(data[i].group_list) :
                                data[i].group_list[k] # None}} :
                  i \in {k \in 1..Len(data) : ~IsPlaceholder(data[k].group_list)}})

\* Slip: the collection loop appends the raw names.
CollectedGroupsRaw(data) ==
    IF \E i \in 1..Len(data) : Raises(data[i].group_list)
    THEN Raise(Exception("TypeError", <<"expected string or bytes-like object">>))
    ELSE Return(UNION {{data[i].group_list[j] :
                            j \in 1..Len(data[i].group_list)} :
                        i \in {k \in 1..Len(data) :
                                  ~IsPlaceholder(data[k].group_list)}})

\* Lines 176-181: the sanitized names, or the TypeError of the first
\* _sanitize_group_name(None).
CollectedGroups(data) ==
    IF \E i \in 1..Len(data) : Raises(data[i].group_list)
    THEN Raise(Exception("TypeError", <<"expected string or bytes-like object">>))
    ELSE Return(UNION {{sanitize_group_name(data[i].group_list[j]) :
                            j \in 1..Len(data[i].group_list)} :
                        i \in {k \in 1..Len(data) :
                                  ~IsPlaceholder(data[k].group_list)}})

\* Slip: enabled is set before the group memberships.
HostCallsEnabledFirst(host) ==
    LET hostname == host.primary_address
        group_list == host.group_list
        last == IF IsPlaceholder(group_list) THEN 0
                ELSE IF Raises(group_list) THEN FirstNone(group_list) - 1
                ELSE Len(group_list)
    IN  <<add_host(hostname, all), set_variable(hostname, "ansible_host", hostname),
          set_variable(hostname, "enabled", host.enabled)>>
        \o [j \in 1..last |-> add_host(hostname, sanitize_group_name(group_list[j]))]

\* Slip: the host loop passes the raw name as the group.
HostCallsRaw(host) ==
    LET hostname == host.primary_address
        group_list == host.group_list
        last == IF IsPlaceholder(group_list) THEN 0
                ELSE IF Raises(group_list) THEN FirstNone(group_list) - 1
                ELSE Len(group_list)
    IN  <<add_host(hostname, all), set_variable(hostname, "ansible_host", hostname)>>
        \o [j \in 1..last |-> add_host(hostname, group_list[j])]
        \o IF Raises(group_list) THEN <<>>
           ELSE <<set_variable(hostname, "enabled", host.enabled)>>

\* Lines 187-195: the calls of one iteration of the host loop, up to the
\* TypeError of _sanitize_group_name(None) when the list holds a None.
HostCalls(host) ==
    LET hostname == host.primary_address
        group_list == host.group_list
        last == IF IsPlaceholder(group_list) THEN 0
                ELSE IF Raises(group_list) THEN FirstNone(group_list) - 1
                ELSE Len(group_list)
    IN  <<add_host(hostname, all), set_variable(hostname, "ansible_host", hostname)>>
        \o [j \in 1..last |-> add_host(hostname, sanitize_group_name(group_list[j]))]
        \o IF Raises(group_list) THEN <<>>
           ELSE <<set_variable(hostname, "enabled", host.enabled)>>

----------------------------------------------------------------------------
(* The run of the plugin: __init__, then parse *)

Fail(e) ==
    /\ pc' = "failed"
    /\ error' = e

Init ==
    /\ HAS_JSONSCHEMA \in BOOLEAN
    /\ HAS_REQUESTS \in BOOLEAN
    /\ cmdb_api_url \in Urls
    /\ pc = "new"
    /\ response = Unbound
    /\ raw_data = Unbound
    /\ sorted_data = <<>>
    /\ host_groups = {}
    /\ n = 1
    /\ calls = <<>>
    /\ error = NoError
    /\ name = <<>>
    /\ once = <<>>
    /\ twice = <<>>
    /\ san_pc = "off"

\* __init__, lines 81-83.
Construct ==
    /\ pc = "new"
    /\ IF check_requirements.error # NoError
       THEN Fail(check_requirements.error)
       ELSE pc' = "constructed" /\ UNCHANGED error
    /\ UNCHANGED <<HAS_JSONSCHEMA, HAS_REQUESTS, cmdb_api_url, response, raw_data,
                   sorted_data, host_groups, n, calls, san_vars>>

\* parse, lines 153-159.
Load ==
    /\ pc = "constructed"
    /\ \E r \in Responses :
          LET got == load_inventory_data(cmdb_api_url, r)
          IN  /\ response' = r
              /\ IF got.error # NoError
                 THEN Fail(got.error) /\ UNCHANGED raw_data
                 ELSE pc' = "loaded" /\ raw_data' = got.value /\ UNCHANGED error
    /\ UNCHANGED <<HAS_JSONSCHEMA, HAS_REQUESTS, cmdb_api_url, sorted_data,
                   host_groups, n, calls, san_vars>>

\* Slip: parse goes on without validating.
ValidateSkipped ==
    /\ pc = "loaded"
    /\ pc' = "validated"
    /\ UNCHANGED <<HAS_JSONSCHEMA, HAS_REQUESTS, cmdb_api_url, response, raw_data,
                   sorted_data, host_groups, n, calls, error, san_vars>>

\* parse, lines 162-169.
Validate ==
    /\ pc = "loaded"
    /\ LET checked == validate(raw_data)
       IN  IF checked.error # NoError
           THEN Fail(Exception("AnsibleError",
                    <<"Unable to validate data, the original error is: ">>
                    \o to_native(checked.error)))
           ELSE pc' = "validated" /\ UNCHANGED error
    /\ UNCHANGED <<HAS_JSONSCHEMA, HAS_REQUESTS, cmdb_api_url, response, raw_data,
                   sorted_data, host_groups, n, calls, san_vars>>

\* parse, lines 171-173.
Sort ==
    /\ pc = "validated"
    /\ IF \E i \in 1..Len(raw_data.hosts) :
             "primary_address" \notin DOMAIN raw_data.hosts[i]
       THEN Fail(Exception("KeyError", <<"primary_address">>))
            /\ UNCHANGED sorted_data
       ELSE pc' = "sorted" /\ sorted_data' = Sorted(raw_data.hosts)
            /\ UNCHANGED error
    /\ UNCHANGED <<HAS_JSONSCHEMA, HAS_REQUESTS, cmdb_api_url, response, raw_data,
                   host_groups, n, calls, san_vars>>

\* parse, lines 175-181.
CollectGroups ==
    /\ pc = "sorted"
    /\ LET collected == CollectedGroups(sorted_data)
       IN  IF collected.error # NoError
           THEN Fail(collected.error) /\ UNCHANGED host_groups
           ELSE pc' = "groups" /\ host_groups' = collected.value
                /\ UNCHANGED error
    /\ UNCHANGED <<HAS_JSONSCHEMA, HAS_REQUESTS, cmdb_api_url, response, raw_data,
                   sorted_data, n, calls, san_vars>>

\* parse, lines 182-183: one iteration; a set is iterated in any order.
AddGroup ==
    /\ pc = "groups"
    /\ \E group \in host_groups :
          /\ calls' = Append(calls, add_group(group))
          /\ host_groups' = host_groups \ {group}
    /\ UNCHANGED <<HAS_JSONSCHEMA, HAS_REQUESTS, cmdb_api_url, pc, response, raw_data,
                   sorted_data, n, error, san_vars>>

\* parse, lines 186-195: one iteration of the host loop.
AddHost ==
    /\ pc = "groups"
    /\ host_groups = {}
    /\ n <= Len(sorted_data)
    /\ calls' = calls \o HostCalls(sorted_data[n])
    /\ IF Raises(sorted_data[n].group_list)
       THEN Fail(Exception("TypeError", <<"expected string or bytes-like object">>))
            /\ UNCHANGED n
       ELSE n' = n + 1 /\ UNCHANGED <<pc, error>>
    /\ UNCHANGED <<HAS_JSONSCHEMA, HAS_REQUESTS, cmdb_api_url, response, raw_data,
                   sorted_data, host_groups, san_vars>>

\* parse returns after the last host.
Finish ==
    /\ pc = "groups"
    /\ host_groups = {}
    /\ n > Len(sorted_data)
    /\ pc' = "done"
    /\ UNCHANGED <<HAS_JSONSCHEMA, HAS_REQUESTS, cmdb_api_url, response, raw_data,
                   sorted_data, host_groups, n, calls, error, san_vars>>

Next ==
    \/ Construct
    \/ Load
    \/ Validate
    \/ Sort
    \/ CollectGroups
    \/ AddGroup
    \/ AddHost
    \/ Finish

Spec == Init /\ [][Next]_vars

----------------------------------------------------------------------------
(* A stand-alone run of _sanitize_group_name on any string, then on its result *)

InitSan ==
    /\ HAS_JSONSCHEMA = TRUE
    /\ HAS_REQUESTS = TRUE
    /\ cmdb_api_url \in Urls
    /\ pc = "new"
    /\ response = Unbound
    /\ raw_data = Unbound
    /\ sorted_data = <<>>
    /\ host_groups = {}
    /\ n = 1
    /\ calls = <<>>
    /\ error = NoError
    /\ name \in Strings(MaxLen)
    /\ once = <<>>
    /\ twice = <<>>
    /\ san_pc = "start"

SanitizeOnce ==
    /\ san_pc = "start"
    /\ once' = sanitize_group_name(name)
    /\ san_pc' = "once"
    /\ UNCHANGED <<parse_vars, name, twice>>

SanitizeAgain ==
    /\ san_pc = "once"
    /\ twice' = sanitize_group_name(once)
    /\ san_pc' = "twice"
    /\ UNCHANGED <<parse_vars, name, once>>

NextSan ==
    \/ SanitizeOnce
    \/ SanitizeAgain

SpecSan == InitSan /\ [][NextSan]_vars

----------------------------------------------------------------------------
(* Vocabulary of the properties *)

Range(s) == {s[i] : i \in DOMAIN s}

Terminated == pc \in {"done", "failed"}

Fetched == raw_data # Unbound

HasKey(host) == "primary_address" \in DOMAIN host

LacksKey == Fetched /\ \E i \in 1..Len(raw_data.hosts) : ~HasKey(raw_data.hosts[i])

\* Every group_list is exactly [null] or holds strings only.
OnlyNamesOrPlaceholder(data) ==
    \A i \in 1..Len(data.hosts) :
        \/ data.hosts[i].group_list = <<None>>
        \/ \A j \in 1..Len(data.hosts[i].group_list) :
              data.hosts[i].group_list[j] # None

\* A payload that passes the schema and that the transformation accepts.
WellFormed == Fetched /\ SchemaErrors(raw_data) = {} /\ OnlyNamesOrPlaceholder(raw_data)

IsAddGroup(c) == c[1] = "add_group"

IsAddHost(c) == c[1] = "add_host"

IsSetVariable(c) == c[1] = "set_variable"

\* The add_host(hostname, group='all') calls, in order.
AllCalls == SelectSeq(calls, LAMBDA c : IsAddHost(c) /\ c[3] = all)

\* The names passed to add_group, in order.
CreatedSeq == SelectSeq(calls, IsAddGroup)

Created == {c[2] : c \in Range(CreatedSeq)}

\* The sanitized names of the hosts whose group_list is not [null].
ExpectedGroups(hosts) ==
    UNION {{sanitize_group_name(hosts[i].group_list[j]) :
               j \in 1..Len(hosts[i].group_list)} :
           i \in {k \in 1..Len(hosts) : hosts[k].group_list # <<None>>}}

Count(seq, Test(_)) == Cardinality({i \in 1..Len(seq) : Test(seq[i])})

----------------------------------------------------------------------------
(* Properties of parse *)

\* C1: a run that ended in an error (missing requirement, fetch failure,
\* validation failure, failure while transforming the payload) has made no
\* add_group, add_host or set_variable call.
C1_AllOrNothing == pc = "failed" => calls = <<>>

\* A run that failed on a None mixed with names, sorted after a host with groups.
C1_Witness ==
    /\ pc = "failed"
    /\ error.type = "TypeError"
    /\ Len(sorted_data) = 2
    /\ sorted_data[1].group_list = <<G2, G1>>
    /\ sorted_data[2].group_list = <<G3, None>>
    /\ calls = <<>>

\* One add_host(., 'all') per record, with the records' addresses, in
\* non-decreasing order.
RegisteredOncePerRecord ==
    LET hosts == raw_data.hosts
        names == [i \in 1..Len(AllCalls) |-> AllCalls[i][2]]
    IN  /\ Len(names) = Len(hosts)
        /\ \A a \in Range(names) \cup {hosts[i].primary_address : i \in 1..Len(hosts)} :
              Cardinality({i \in 1..Len(names) : names[i] = a})
              = Cardinality({i \in 1..Len(hosts) : hosts[i].primary_address = a})
        /\ \A i, j \in 1..Len(names) : i < j => ~StrLess(names[j], names[i])

\* C2 as stated: for every payload that passes validation, the finished run
\* has registered one host per record, named by primary_address, in
\* non-decreasing order.
C2_EveryValidPayload ==
    (Terminated /\ Fetched /\ SchemaErrors(raw_data) = {}) => RegisteredOncePerRecord

\* C2, amended: for every payload that passes validation and in which every
\* group_list is exactly [null] or holds strings only, parse completes and
\* has registered one host per record, named by primary_address, in
\* non-decreasing order.
C2_WellFormedPayload ==
    (Terminated /\ WellFormed) => (pc = "done" /\ RegisteredOncePerRecord)

\* A completed run over two records that arrived in descending order.
C2_Witness ==
    /\ pc = "done"
    /\ Len(raw_data.hosts) = 2
    /\ StrLess(raw_data.hosts[2].primary_address, raw_data.hosts[1].primary_address)
    /\ Len(AllCalls) = 2

\* C3: after a response whose status is not 200 the run has failed with an
\* AnsibleError whose message names the requested URL, and the inventory has
\* received no call.
C3_Non200 ==
    (response # Unbound /\ response.kind = "json" /\ response.status_code # 200)
    => /\ pc = "failed"
       /\ error.type = "AnsibleError"
       /\ cmdb_api_url \in Range(error.message)
       /\ calls = <<>>

C3_Witness ==
    /\ response # Unbound
    /\ response.kind = "json"
    /\ response.status_code = 404
    /\ pc = "failed"

\* C4: once a payload with a host that lacks primary_address is fetched, the
\* run makes no inventory call and does not sort; it stays before validation
\* or has failed with an AnsibleError that carries the validator's message.
C4_ValidationFirst ==
    LacksKey
    => /\ calls = <<>>
       /\ sorted_data = <<>>
       /\ \/ pc = "loaded"
          \/ /\ pc = "failed"
             /\ error.type = "AnsibleError"
             /\ error.message =
                   <<"Unable to validate data, the original error is: ">>
                   \o to_native(validate(raw_data).error)

\* The second of two hosts lacks the key and the run has failed.
C4_Witness ==
    /\ LacksKey
    /\ pc = "failed"
    /\ Len(raw_data.hosts) = 2
    /\ HasKey(raw_data.hosts[1])
    /\ raw_data.hosts[1].group_list = <<G1>>

\* The records that share the address of record i all have group_list [null].
OnlyPlaceholder(hosts, i) ==
    \A k \in 1..Len(hosts) :
        hosts[k].primary_address = hosts[i].primary_address
        => hosts[k].group_list = <<None>>

\* C5: a run over a well-formed payload completes, and for every host whose
\* group_list is exactly [null]: no add_host call names it with a group other
\* than 'all', it is added to 'all' once per record, its ansible_host and
\* enabled variables are set, and the groups created are those of the other
\* hosts.
C5_Placeholder ==
    (Terminated /\ WellFormed)
    => /\ pc = "done"
       /\ LET hosts == raw_data.hosts
          IN  \A i \in {k \in 1..Len(hosts) : OnlyPlaceholder(hosts, k)} :
                 LET a == hosts[i].primary_address
                 IN  /\ \A c \in Range(calls) :
                           (IsAddHost(c) /\ c[2] = a) => c[3] = all
                     /\ Count(calls, LAMBDA c : IsAddHost(c) /\ c[2] = a)
                        = Cardinality({k \in 1..Len(hosts) :
                                          hosts[k].primary_address = a})
                     /\ \E k \in 1..Len(calls) :
                           /\ IsSetVariable(calls[k])
                           /\ calls[k][2] = a
                           /\ calls[k][3] = "ansible_host"
                           /\ calls[k][4] = a
                     /\ \E k \in 1..Len(calls) :
                           /\ IsSetVariable(calls[k])
                           /\ calls[k][2] = a
                           /\ calls[k][3] = "enabled"
                           /\ calls[k][4] = hosts[i].enabled
                     /\ Created =
                           ExpectedGroups(SelectSeq(hosts,
                               LAMBDA h : h.primary_address # a))

\* A completed run where a [null] host sorts before a host with two groups.
C5_Witness ==
    /\ pc = "done"
    /\ Len(sorted_data) = 2
    /\ sorted_data[1].group_list = <<None>>
    /\ sorted_data[2].group_list = <<G3, G1>>
    /\ sorted_data[1].primary_address # sorted_data[2].primary_address
    /\ Len(calls) = 10

\* The calls C6 lists for one host.
ExpectedBlock(host) ==
    LET hostname == host.primary_address
        groups == IF host.group_list = <<None>> THEN <<>> ELSE host.group_list
    IN  <<add_host(hostname, all), set_variable(hostname, "ansible_host", hostname)>>
        \o [j \in 1..Len(groups) |-> add_host(hostname, sanitize_group_name(groups[j]))]
        \o <<set_variable(hostname, "enabled", host.enabled)>>

RECURSIVE ExpectedBlocks(_, _)
ExpectedBlocks(hosts, k) ==
    IF k = 0 THEN <<>>
    ELSE ExpectedBlocks(hosts, k - 1) \o ExpectedBlock(hosts[k])

\* C6: the add_group calls are a prefix of the calls; after them come, whole
\* and in the order of sorted_data, the blocks of the hosts handled so far:
\* add_host into 'all', ansible_host, one add_host per sanitized group in
\* group_list order, enabled; a completed run has the block of every host.
C6_CallOrder ==
    LET created == Len(CreatedSeq)
    IN  /\ \A i \in 1..Len(calls) : IsAddGroup(calls[i]) <=> i <= created
        /\ pc \in {"groups", "done"}
           => SubSeq(calls, created + 1, Len(calls))
              = ExpectedBlocks(sorted_data, n - 1)
        /\ pc = "done" => n - 1 = Len(sorted_data)
        /\ (Terminated /\ WellFormed) => pc = "done"

\* A completed run with two groups created and two hosts with groups.
C6_Witness ==
    /\ pc = "done"
    /\ Len(CreatedSeq) = 2
    /\ Len(sorted_data) = 2
    /\ sorted_data[1].group_list = <<G3, G1>>
    /\ sorted_data[2].group_list = <<G2, G1>>

\* C9: add_group is called at most once per name, and the names created
\* together with those still to create are exactly the sanitized names of the
\* hosts whose group_list is not [null]; at the end all of them are created.
C9_CreatedGroups ==
    /\ pc \in {"groups", "done"}
       => /\ \A i, j \in 1..Len(CreatedSeq) :
                CreatedSeq[i] = CreatedSeq[j] => i = j
          /\ Created \cap host_groups = {}
          /\ Created \cup host_groups = ExpectedGroups(raw_data.hosts)
    /\ pc = "done" => host_groups = {}
    /\ (Terminated /\ WellFormed) => pc = "done"

\* 'C-1' and 'c_1' of two hosts gave the single call add_group('c_1').
C9_Witness ==
    /\ pc = "done"
    /\ Len(raw_data.hosts) = 2
    /\ raw_data.hosts[1].group_list = <<G1>>
    /\ raw_data.hosts[2].group_list = <<G2, G1>>
    /\ CreatedSeq = <<add_group(<<"c", "_", "1">>)>>

\* C10: every add_host call into a group other than 'all' comes after an
\* add_group call for that group.
C10_PreCreated ==
    \A j \in 1..Len(calls) :
        (IsAddHost(calls[j]) /\ calls[j][3] # all)
        => \E i \in 1..(j - 1) :
              IsAddGroup(calls[i]) /\ calls[i][2] = calls[j][3]

\* A host has been added to the group made from 'a!'.
C10_Witness ==
    \E j \in 1..Len(calls) :
        IsAddHost(calls[j]) /\ calls[j][3] = <<"a", "_">>

----------------------------------------------------------------------------
(* Properties of _sanitize_group_name *)

\* C7: sanitizing a sanitized name gives the same name.
C7_Idempotent == san_pc = "twice" => twice = once

\* A name that sanitization changed has been sanitized twice.
C7_Witness ==
    /\ san_pc = "twice"
    /\ name = <<"C", "-", "!">>
    /\ once = <<"c", "_", "_">>

\* C8: the result has the length of the input and only characters of
\* [a-z0-9_]: a character outside [A-Za-z0-9_-] became '_', an upper-case
\* letter its lower-case letter, '-' became '_'.
C8_Charset ==
    san_pc # "start"
    => /\ Len(once) = Len(name)
       /\ \A i \in 1..Len(once) :
             /\ once[i] \in {"a", "c", "1", "_"}
             /\ name[i] \notin {"A", "C", "a", "c", "1", "_", "-"} => once[i] = "_"
             /\ name[i] \in {"A", "C"}
                => <<name[i], once[i]>> \in {<<"A", "a">>, <<"C", "c">>}
             /\ name[i] = "-" => once[i] = "_"

\* An upper-case letter, a blank and a '-' have been sanitized.
C8_Witness ==
    /\ san_pc = "once"
    /\ name = <<"A", " ", "-">>
    /\ once = <<"a", "_", "_">>

====
